---- MODULE Spec2Model ----
(***************************************************************************)
(* Model of the GameOfLife class of src/game-of-life.py: the grid engine   *)
(* (constructor, randomize, get_grid, populate_grid, make_step,            *)
(* make_n_steps, animate).  draw_grid and _setup_axes only read the grid    *)
(* and are left out.  animate advances the grid between its frames and     *)
(* hands control to the GUI event loop in plt.pause, where a handler may    *)
(* call the engine: it is modelled one frame at a time.                    *)
(*                                                                         *)
(* A grid (numpy array of shape (rows, cols), dtype int) is a function     *)
(* [0..rows-1 -> [0..cols-1 -> Int]], indexed from 0 as in the source.     *)
(* A raised Python exception is recorded in err; the engine object the     *)
(* caller holds is untouched by a call that raises before assigning.       *)
(***************************************************************************)
EXTENDS Integers, Sequences, FiniteSets

VARIABLES rows, cols, life_grid, current_step, err, call, advances, snap, anim

vars == <<rows, cols, life_grid, current_step, err, call, advances, snap, anim>>

(***************************************************************************)
(* Bounds of the model.                                                    *)
(***************************************************************************)
\* largest number of cells (rows * cols) of a grid in Spec and SpecSnapshot
MaxCells == 4
\* largest number of cells of a grid in SpecStep, where make_step is run on
\* every 0/1 grid
StepMaxCells == 9
\* largest side of the square-ish grids of SpecGlider (smallest is 6)
GliderMaxDim == 7
\* caps on current_step (the counter is unbounded in the source):
\* in Spec and SpecSnapshot, in SpecStep, in SpecGlider
MaxStep == 2
StepMaxStep == 2
GliderMaxStep == 5
\* largest n given to make_n_steps
MaxN == 2
\* largest steps argument given to animate
MaxFrames == 3

(***************************************************************************)
(* Helpers for Python built-ins.                                           *)
(***************************************************************************)
\* range(a, b) as a sequence
Range(a, b) == [i \in 1..(b - a) |-> a + i - 1]

\* np.zeros(shape=(rws, cls), dtype=int), for rws >= 0 and cls >= 0
Zeros(rws, cls) == [r \in 0..(rws - 1) |-> [c \in 0..(cls - 1) |-> 0]]

\* every array of shape (rws, cls) with entries 0 or 1
AllGrids(rws, cls) == [0..(rws - 1) -> [0..(cls - 1) -> {0, 1}]]

\* the caller holds no array returned by get_grid
NoSnap == [held |-> FALSE, same |-> FALSE, cells |-> <<>>]

\* the array the caller holds is another object than self.life_grid from now on
Detached(s) == [s EXCEPT !.same = FALSE]

(***************************************************************************)
(* __init__(rows, cols).  np.zeros raises ValueError for a negative        *)
(* dimension; a zero dimension gives an empty array.                       *)
(***************************************************************************)
InitRaises(rws, cls) == rws < 0 \/ cls < 0

Construct(rws, cls) ==
    /\ call' = [op |-> "construct", arg |-> <<rws, cls>>]
    /\ IF InitRaises(rws, cls)
       THEN /\ err' = "ValueError"
            /\ UNCHANGED <<rows, cols, life_grid, current_step, advances, snap, anim>>
       ELSE /\ err' = "none"
            /\ UNCHANGED anim
            /\ rows' = rws
            /\ cols' = cls
            /\ life_grid' = Zeros(rws, cls)
            /\ current_step' = 0
            /\ advances' = 0
            /\ snap' = Detached(snap)

(***************************************************************************)
(* randomize(density).  density is given in tenths (3 is 0.3).             *)
(* np.random.choice raises ValueError when an entry of p is negative;      *)
(* p = [1-density, density].  Otherwise each cell is drawn from [0, 1]     *)
(* with these probabilities: probability 0 excludes a value.               *)
(***************************************************************************)
\* variant: only a negative density is rejected
ChoiceRaisesNegativeOnly(density) == density < 0

ChoiceRaises(density) == (10 - density) < 0 \/ density < 0

ChoiceValues(density) ==
    (IF 10 - density > 0 THEN {0} ELSE {}) \cup (IF density > 0 THEN {1} ELSE {})

\* variant: size=(self.cols, self.rows)
RandomGridsTransposed(rws, cls, density) ==
    [0..(cls - 1) -> [0..(rws - 1) -> ChoiceValues(density)]]

RandomGrids(rws, cls, density) ==
    [0..(rws - 1) -> [0..(cls - 1) -> ChoiceValues(density)]]

Randomize(density) ==
    /\ call' = [op |-> "randomize", arg |-> <<density>>]
    /\ IF ChoiceRaises(density)
       THEN /\ err' = "ValueError"
            /\ UNCHANGED <<rows, cols, life_grid, current_step, advances, snap, anim>>
       ELSE /\ err' = "none"
            /\ UNCHANGED anim
            /\ life_grid' \in RandomGrids(rows, cols, density)
            /\ current_step' = 0
            /\ advances' = 0
            /\ snap' = Detached(snap)
            /\ UNCHANGED <<rows, cols>>

(***************************************************************************)
(* populate_grid(coords): the loop writes 1 into the array in place for    *)
(* every pair that passes the range test, then resets the counter.         *)
(***************************************************************************)
InRange(rws, cls, r, c) == 0 <= r /\ r < rws /\ 0 <= c /\ c < cls

\* variant: the range test lacks the lower bounds, so that a negative index
\* counts from the end of the array as Python indexing does
RECURSIVE populate_loop_wraps(_, _, _, _)
populate_loop_wraps(g, rws, cls, coords) ==
    IF coords = <<>>
    THEN g
    ELSE LET r == Head(coords)[1]
             c == Head(coords)[2]
         IN  populate_loop_wraps(IF r < rws /\ c < cls /\ -rws <= r /\ -cls <= c
                                 THEN [g EXCEPT ![r % rws][c % cls] = 1]
                                 ELSE g,
                                 rws, cls, Tail(coords))

RECURSIVE populate_loop(_, _, _, _)
populate_loop(g, rws, cls, coords) ==
    IF coords = <<>>
    THEN g
    ELSE LET r == Head(coords)[1]
             c == Head(coords)[2]
         IN  populate_loop(IF InRange(rws, cls, r, c)
                           THEN [g EXCEPT ![r][c] = 1]
                           ELSE g,
                           rws, cls, Tail(coords))

\* variant: the counter is reset inside the range test, so only when a pair
\* is in range
PopulateGridResetOnHit(coords) ==
    /\ call' = [op |-> "populate_grid", arg |-> coords]
    /\ err' = "none"
    /\ life_grid' = populate_loop(life_grid, rows, cols, coords)
    /\ current_step' =
          IF \E i \in DOMAIN coords : InRange(rows, cols, coords[i][1], coords[i][2])
          THEN 0
          ELSE current_step
    /\ advances' = 0
    /\ snap' = IF snap.held /\ snap.same
               THEN [snap EXCEPT !.cells = life_grid']
               ELSE snap
    /\ UNCHANGED <<rows, cols, anim>>

PopulateGrid(coords) ==
    /\ call' = [op |-> "populate_grid", arg |-> coords]
    /\ err' = "none"
    /\ life_grid' = populate_loop(life_grid, rows, cols, coords)
    /\ current_step' = 0
    /\ advances' = 0
    /\ snap' = IF snap.held /\ snap.same
               THEN [snap EXCEPT !.cells = life_grid']
               ELSE snap
    /\ UNCHANGED <<rows, cols, anim>>

(***************************************************************************)
(* make_step(): neighbour sums of the current array, then the rules into   *)
(* a new array that replaces self.life_grid.                               *)
(***************************************************************************)
\* variant: the pair (0, 0) is not skipped, a cell counts itself
OffsetsWithSelf ==
    << <<-1, -1>>, <<-1, 0>>, <<-1, 1>>,
       <<0, -1>>,  <<0, 0>>,  <<0, 1>>,
       <<1, -1>>,  <<1, 0>>,  <<1, 1>> >>

\* the (r, c) pairs of the two inner loops, in loop order, without (0, 0)
Offsets ==
    << <<-1, -1>>, <<-1, 0>>, <<-1, 1>>,
       <<0, -1>>,             <<0, 1>>,
       <<1, -1>>,  <<1, 0>>,  <<1, 1>> >>

neighbor_in_range(rws, cls, rn, cn) == 0 <= rn /\ rn < rws /\ 0 <= cn /\ cn < cls

RECURSIVE sum_neighbors(_, _, _, _, _, _)
sum_neighbors(g, rws, cls, rc, cc, offs) ==
    IF offs = <<>>
    THEN 0
    ELSE LET rn == rc + Head(offs)[1]
             cn == cc + Head(offs)[2]
         IN  (IF neighbor_in_range(rws, cls, rn, cn) THEN g[rn][cn] ELSE 0)
             + sum_neighbors(g, rws, cls, rc, cc, Tail(offs))

\* neighbors[(rc, cc)]
neighbors(g, rws, cls, rc, cc) == sum_neighbors(g, rws, cls, rc, cc, Offsets)

\* variant: the first test does not look at the cell, a dead cell with 2
\* neighbours is born
rule_ignores_cell(cell, n) ==
    IF n \in {2, 3} THEN 1
    ELSE IF cell = 0 /\ n = 3 THEN 1
    ELSE 0

rule(cell, n) ==
    IF cell = 1 /\ n \in {2, 3} THEN 1
    ELSE IF cell = 0 /\ n = 3 THEN 1
    ELSE 0

new_grid(g, rws, cls) ==
    [rc \in 0..(rws - 1) |->
        [cc \in 0..(cls - 1) |->
            rule(g[rc][cc], neighbors(g, rws, cls, rc, cc))]]

\* the engine's mutable fields as make_step sees them
Engine(g, step) == [grid |-> g, step |-> step]

\* an array held in memory: comparing a function with itself makes TLC tabulate
\* it once instead of recomputing a cell at every read
Stored(g) == IF g = g THEN g ELSE g

make_step(e, rws, cls) == Engine(Stored(new_grid(e.grid, rws, cls)), e.step + 1)

MakeStep ==
    /\ call' = [op |-> "make_step", arg |-> <<>>]
    /\ err' = "none"
    /\ LET e == make_step(Engine(life_grid, current_step), rows, cols)
       IN  /\ life_grid' = e.grid
           /\ current_step' = e.step
    /\ advances' = advances + 1
    /\ snap' = Detached(snap)
    /\ UNCHANGED <<rows, cols, anim>>

(***************************************************************************)
(* make_n_steps(n): for i in range(1, n + 1): self.make_step()             *)
(***************************************************************************)
RECURSIVE for_loop(_, _, _, _)
for_loop(e, rws, cls, is) ==
    IF is = <<>>
    THEN e
    ELSE for_loop(make_step(e, rws, cls), rws, cls, Tail(is))

\* variant: range(1, n), one step short
make_n_steps_short(e, rws, cls, n) == for_loop(e, rws, cls, Range(1, n))

make_n_steps(e, rws, cls, n) == for_loop(e, rws, cls, Range(1, n + 1))

MakeNSteps(n) ==
    /\ call' = [op |-> "make_n_steps", arg |-> <<n>>]
    /\ err' = "none"
    /\ LET e == make_n_steps(Engine(life_grid, current_step), rows, cols, n)
       IN  /\ life_grid' = e.grid
           /\ current_step' = e.step
    /\ advances' = advances + (IF n > 0 THEN n ELSE 0)
    /\ snap' = IF n > 0 THEN Detached(snap) ELSE snap
    /\ UNCHANGED <<rows, cols, anim>>

(***************************************************************************)
(* animate(steps, delay): for frame in range(steps): show the grid, wait   *)
(* in plt.pause(delay), then make_step() unless this is the last frame.    *)
(* anim.frame is the frame whose plt.pause is running.                     *)
(***************************************************************************)
\* no animate call is running
NoAnim == [active |-> FALSE, frame |-> 0, steps |-> 0]

\* the loop enters frame, or ends when range(steps) is exhausted
enter_frame(frame, steps) ==
    IF frame < steps
    THEN [active |-> TRUE, frame |-> frame, steps |-> steps]
    ELSE NoAnim

\* if frame < steps - 1
steps_after_frame(frame, steps) == frame < steps - 1

\* animate is called and runs up to the first plt.pause
AnimateStart(steps) ==
    /\ ~anim.active
    /\ call' = [op |-> "animate", arg |-> <<steps, 0>>]
    /\ err' = "none"
    /\ anim' = enter_frame(0, steps)
    /\ UNCHANGED <<rows, cols, life_grid, current_step, advances, snap>>

\* plt.pause returns: the rest of this iteration, then up to the next plt.pause
AnimateResume ==
    /\ anim.active
    /\ call' = [op |-> "animate", arg |-> <<anim.steps, anim.frame + 1>>]
    /\ err' = "none"
    /\ IF steps_after_frame(anim.frame, anim.steps)
       THEN LET e == make_step(Engine(life_grid, current_step), rows, cols)
            IN  /\ life_grid' = e.grid
                /\ current_step' = e.step
                /\ advances' = advances + 1
                /\ snap' = Detached(snap)
       ELSE UNCHANGED <<life_grid, current_step, advances, snap>>
    /\ anim' = enter_frame(anim.frame + 1, anim.steps)
    /\ UNCHANGED <<rows, cols>>

(***************************************************************************)
(* get_grid() returns self.life_grid itself; the caller may then write     *)
(* into the returned array.                                                *)
(***************************************************************************)
get_grid(g) == [held |-> TRUE, same |-> TRUE, cells |-> g]

GetGrid ==
    /\ call' = [op |-> "get_grid", arg |-> <<>>]
    /\ err' = "none"
    /\ snap' = get_grid(life_grid)
    /\ UNCHANGED <<rows, cols, life_grid, current_step, advances, anim>>

\* the caller executes  returned[r][c] = v  on the array it got from get_grid
CallerWrite(r, c, v) ==
    /\ snap.held
    /\ InRange(rows, cols, r, c)
    /\ r \in DOMAIN snap.cells /\ c \in DOMAIN snap.cells[r]
    /\ call' = [op |-> "caller_write", arg |-> <<r, c, v>>]
    /\ err' = "none"
    /\ snap' = [snap EXCEPT !.cells[r][c] = v]
    /\ life_grid' = IF snap.same THEN snap'.cells ELSE life_grid
    /\ UNCHANGED <<rows, cols, current_step, advances, anim>>

(***************************************************************************)
(* Inputs of the calls.                                                    *)
(***************************************************************************)
\* the shapes with at most n cells
Fits(rws, cls, n) == rws * cls <= n

DimInputs == -1..MaxCells

\* densities in tenths: -0.2, 0.0, 0.3, 1.0, 1.5
DensityInputs == {-2, 0, 3, 10, 15}

NInputs == -1..MaxN

FrameInputs == -1..MaxFrames

CoordInputs ==
    { <<>>,
      << <<0, 0>> >>,
      << <<5, 5>> >>,
      << <<-1, 0>> >>,
      << <<0, -1>>, <<1, 1>> >>,
      << <<1, 0>>, <<0, 1>>, <<2, 1>> >>,
      << <<-1, -1>>, <<0, 2>> >> }

\* the glider of the pattern library, as (row, col) pairs
Glider == << <<1, 0>>, <<2, 1>>, <<0, 2>>, <<1, 2>>, <<2, 2>> >>

(***************************************************************************)
(* Specifications.                                                         *)
(***************************************************************************)
\* the state right after GameOfLife(rws, cls) returned
Constructed(rws, cls) ==
    /\ rows = rws
    /\ cols = cls
    /\ life_grid = Zeros(rws, cls)
    /\ current_step = 0
    /\ err = "none"
    /\ call = [op |-> "construct", arg |-> <<rws, cls>>]
    /\ advances = 0
    /\ snap = NoSnap
    /\ anim = NoAnim

Init ==
    \E rws \in 1..MaxCells, cls \in 1..MaxCells :
        Fits(rws, cls, MaxCells) /\ Constructed(rws, cls)

\* a new engine is made by the main program, not by a handler of a running
\* animate
CallConstruct ==
    /\ ~anim.active
    /\ \E rws \in DimInputs, cls \in DimInputs :
          Fits(rws, cls, MaxCells) /\ Construct(rws, cls)

CallRandomize == \E density \in DensityInputs : Randomize(density)

CallPopulateGrid == \E coords \in CoordInputs : PopulateGrid(coords)

CallMakeStep == current_step < MaxStep /\ MakeStep

CallMakeNSteps ==
    \E n \in NInputs : (n <= 0 \/ current_step + n <= MaxStep) /\ MakeNSteps(n)

CallAnimate == \E steps \in FrameInputs : AnimateStart(steps)

\* the frame about to end is followed by a make_step
WillStep == anim.active /\ steps_after_frame(anim.frame, anim.steps)

CallAnimateResume == (WillStep => current_step < MaxStep) /\ AnimateResume

\* the engine driven through its whole interface, the returned grid never
\* written; while animate waits in plt.pause the other calls are those of GUI
\* handlers
Next ==
    \/ CallConstruct
    \/ CallRandomize
    \/ CallPopulateGrid
    \/ CallMakeStep
    \/ CallMakeNSteps
    \/ CallAnimate
    \/ CallAnimateResume

Spec == Init /\ [][Next]_vars

(***************************************************************************)
(* SpecStep: make_step and make_n_steps from every 0/1 grid of up to       *)
(* StepMaxCells cells, also through animate.  Each initial state is the    *)
(* engine after                                                            *)
(* GameOfLife(rws, cls) and populate_grid(the alive cells of the grid).    *)
(***************************************************************************)
\* the alive cells of g in row-major order
AliveSeq(g, rws, cls) ==
    LET cells == [i \in 1..(rws * cls) |-> <<(i - 1) \div cls, (i - 1) % cls>>]
        IsAlive(p) == g[p[1]][p[2]] = 1
    IN  SelectSeq(cells, IsAlive)

Populated(rws, cls, g) ==
    /\ rows = rws
    /\ cols = cls
    /\ life_grid = g
    /\ current_step = 0
    /\ err = "none"
    /\ call = [op |-> "populate_grid", arg |-> AliveSeq(g, rws, cls)]
    /\ advances = 0
    /\ snap = NoSnap
    /\ anim = NoAnim

StepInit ==
    \E rws \in 1..StepMaxCells, cls \in 1..StepMaxCells :
        /\ Fits(rws, cls, StepMaxCells)
        /\ \E g \in AllGrids(rws, cls) : Populated(rws, cls, g)

\* no GUI handler is installed here: while animate runs nothing else is called
StepMakeStep == ~anim.active /\ current_step < StepMaxStep /\ MakeStep

StepMakeNSteps ==
    /\ ~anim.active
    /\ \E n \in 0..MaxN : current_step + n <= StepMaxStep /\ MakeNSteps(n)

StepAnimate == \E steps \in 1..MaxFrames : AnimateStart(steps)

StepAnimateResume == (WillStep => current_step < StepMaxStep) /\ AnimateResume

StepNext == StepMakeStep \/ StepMakeNSteps \/ StepAnimate \/ StepAnimateResume

SpecStep == StepInit /\ [][StepNext]_vars

(***************************************************************************)
(* SpecGlider: the glider seeded on an all-dead grid of at least 6 x 6     *)
(* cells, then stepped or animated.                                        *)
(***************************************************************************)
AllDead(g) == \A r \in DOMAIN g : \A c \in DOMAIN g[r] : g[r][c] = 0

GliderInit ==
    \E rws \in 6..GliderMaxDim, cls \in 6..GliderMaxDim : Constructed(rws, cls)

GliderPopulate == AllDead(life_grid) /\ PopulateGrid(Glider)

GliderMakeStep == current_step < GliderMaxStep /\ MakeStep

GliderMakeNSteps ==
    \E n \in 0..MaxN : current_step + n <= GliderMaxStep /\ MakeNSteps(n)

GliderAnimate == \E steps \in 1..MaxFrames : AnimateStart(steps)

GliderAnimateResume == (WillStep => current_step < GliderMaxStep) /\ AnimateResume

GliderNext ==
    \/ GliderPopulate
    \/ GliderMakeStep
    \/ GliderMakeNSteps
    \/ GliderAnimate
    \/ GliderAnimateResume

SpecGlider == GliderInit /\ [][GliderNext]_vars

(***************************************************************************)
(* SpecSnapshot: the engine together with a caller that keeps the array    *)
(* returned by get_grid and writes 0 or 1 into it.                         *)
(***************************************************************************)
CallGetGrid == GetGrid

CallCallerWrite ==
    \E r \in 0..(MaxCells - 1), c \in 0..(MaxCells - 1), v \in {0, 1} :
        CallerWrite(r, c, v)

SnapshotNext ==
    \/ CallPopulateGrid
    \/ CallMakeStep
    \/ CallMakeNSteps
    \/ CallGetGrid
    \/ CallCallerWrite
    \/ CallAnimate
    \/ CallAnimateResume

SpecSnapshot == Init /\ [][SnapshotNext]_vars

(***************************************************************************)
(* Properties.                                                             *)
(***************************************************************************)
Cells(rws, cls) == (0..(rws - 1)) \X (0..(cls - 1))

AliveSet(g, rws, cls) == {p \in Cells(rws, cls) : g[p[1]][p[2]] = 1}

HasShape(g, rws, cls) ==
    /\ DOMAIN g = 0..(rws - 1)
    /\ \A r \in DOMAIN g : DOMAIN g[r] = 0..(cls - 1)

\* the number of alive cells among the adjacent positions that lie in the grid
AliveNeighbours(g, rws, cls, r, c) ==
    Cardinality({p \in ((r - 1)..(r + 1)) \X ((c - 1)..(c + 1)) :
                    /\ p # <<r, c>>
                    /\ p \in Cells(rws, cls)
                    /\ g[p[1]][p[2]] = 1})

ConwayAlive(g, rws, cls, r, c) ==
    LET n == AliveNeighbours(g, rws, cls, r, c)
    IN  \/ g[r][c] = 1 /\ n \in {2, 3}
        \/ g[r][c] = 0 /\ n = 3

\* the call just made ran make_step once: make_step itself, or animate going
\* from one frame to the next
SteppedOnce(cl) ==
    \/ cl.op = "make_step"
    \/ cl.op = "animate" /\ 0 < cl.arg[2] /\ cl.arg[2] < cl.arg[1]

\* C1: after make_step every cell is alive exactly when, in the grid before the
\* step, it was alive with 2 or 3 alive neighbours or dead with exactly 3, the
\* neighbours being the adjacent positions inside the grid (no wraparound).
C1_StepAppliesConwayRule ==
    [][SteppedOnce(call') =>
        /\ HasShape(life_grid', rows, cols)
        /\ \A p \in Cells(rows, cols) :
              /\ life_grid'[p[1]][p[2]] \in {0, 1}
              /\ life_grid'[p[1]][p[2]] = 1
                    <=> ConwayAlive(life_grid, rows, cols, p[1], p[2])]_vars

\* a 3 x 3 grid after a step that left the centre (8 neighbours) and a corner alive
C1_Witness ==
    /\ call.op = "make_step"
    /\ rows = 3 /\ cols = 3
    /\ life_grid[1][1] = 1
    /\ life_grid[0][0] = 1
    /\ life_grid[2][2] = 0

\* C2: the generation counter equals the number of single-generation advances
\* since the most recent successful construct, randomize or populate, and is 0
\* right after each of these.
C2_GenerationCountsAdvances ==
    /\ current_step = advances
    /\ (call.op \in {"construct", "randomize", "populate_grid"} /\ err = "none")
          => current_step = 0

\* a populate with only out-of-range pairs, made after a step, reset the counter
C2_Witness ==
    /\ call = [op |-> "populate_grid", arg |-> << <<5, 5>> >>]
    /\ current_step = 0
    /\ life_grid # Zeros(rows, cols)

\* C3: populate_grid raises nothing, sets alive exactly the cells named by an
\* in-range pair and leaves every other cell as it was; pairs out of range
\* (negative ones included) change nothing.
C3_PopulateAdditivePermissive ==
    [][call'.op = "populate_grid" =>
        /\ err' = "none"
        /\ HasShape(life_grid', rows, cols)
        /\ \A p \in Cells(rows, cols) :
              life_grid'[p[1]][p[2]] =
                 IF \E i \in DOMAIN call'.arg : call'.arg[i] = p
                 THEN 1
                 ELSE life_grid[p[1]][p[2]]]_vars

\* populate_grid([(0,-1), (1,1)]) on a 2 x 2 grid: (1,1) alive, (0,1) not touched
C3_Witness ==
    /\ call = [op |-> "populate_grid", arg |-> << <<0, -1>>, <<1, 1>> >>]
    /\ rows = 2 /\ cols = 2
    /\ life_grid[1][1] = 1
    /\ life_grid[0][1] = 0

\* the engine after make_step was called k times in sequence
RECURSIVE StepCalledTimes(_, _, _, _)
StepCalledTimes(k, e, rws, cls) ==
    IF k = 0
    THEN e
    ELSE make_step(StepCalledTimes(k - 1, e, rws, cls), rws, cls)

\* C4: for n >= 0, make_n_steps(n) leaves the cells and the counter that n
\* calls of make_step in sequence leave; make_n_steps(0) changes neither.
C4_NStepsEqualsRepeatedStep ==
    [][(call'.op = "make_n_steps" /\ call'.arg[1] >= 0) =>
        /\ Engine(life_grid', current_step')
              = StepCalledTimes(call'.arg[1], Engine(life_grid, current_step),
                                rows, cols)
        /\ call'.arg[1] = 0 =>
              (life_grid' = life_grid /\ current_step' = current_step)]_vars

C4_Witness ==
    /\ call = [op |-> "make_n_steps", arg |-> <<2>>]
    /\ current_step = 2
    /\ AliveSet(life_grid, rows, cols) # {}

\* C5 as stated: make_n_steps with a negative n reports an error to the caller
\* (and changes nothing).  The code returns normally: range(1, n + 1) is empty.
C5_NegativeNFails ==
    (call.op = "make_n_steps" /\ call.arg[1] < 0) => err # "none"

\* C6 as stated: the constructor fails whenever rows <= 0 or cols <= 0.  The
\* code returns an engine with no cells when a dimension is 0.
C6_NonPositiveDimensionFails ==
    (call.op = "construct" /\ (call.arg[1] <= 0 \/ call.arg[2] <= 0))
        => err # "none"

\* C7 as stated: a write by the caller into the array returned by get_grid
\* never changes the engine's cells.
C7_SnapshotNotAliased ==
    [][call'.op = "caller_write" => life_grid' = life_grid]_vars

\* C8: randomize with a density outside [0, 1] fails and leaves the cells and
\* the generation counter as they were.
C8_BadDensityRejected ==
    [][(call'.op = "randomize" /\ (call'.arg[1] < 0 \/ call'.arg[1] > 10)) =>
        /\ err' # "none"
        /\ life_grid' = life_grid
        /\ current_step' = current_step]_vars

\* randomize(1.5) failed on an engine that had alive cells and had stepped
C8_Witness ==
    /\ call = [op |-> "randomize", arg |-> <<15>>]
    /\ err = "ValueError"
    /\ current_step > 0
    /\ AliveSet(life_grid, rows, cols) # {}

\* C9: the cell matrix always has rows x cols entries, each 0 or 1.
C9_ShapeAndValues ==
    /\ HasShape(life_grid, rows, cols)
    /\ \A p \in Cells(rows, cols) : life_grid[p[1]][p[2]] \in {0, 1}

\* a randomized grid that is not square
C9_Witness ==
    /\ call.op = "randomize"
    /\ err = "none"
    /\ rows # cols
    /\ AliveSet(life_grid, rows, cols) # {}

GliderSet == {Glider[i] : i \in DOMAIN Glider}

ShiftedGlider == {<<p[1] + 1, p[2] + 1>> : p \in GliderSet}

\* C10: four steps after the glider was seeded on an all-dead grid, the alive
\* cells are the glider's cells shifted by (+1,+1) and the counter is 4.
C10_GliderMovesDiagonally ==
    (advances = 4 /\ AliveSet(life_grid, rows, cols) # {}) =>
        /\ AliveSet(life_grid, rows, cols) = ShiftedGlider
        /\ ShiftedGlider = {<<2, 1>>, <<3, 2>>, <<1, 3>>, <<2, 3>>, <<3, 3>>}
        /\ current_step = 4

C10_Witness ==
    /\ rows = 6 /\ cols = 6
    /\ advances = 4
    /\ call.op \in {"make_step", "make_n_steps"}
    /\ AliveSet(life_grid, rows, cols) = ShiftedGlider

====
